---- MODULE Spec2Model ----
(***************************************************************************)
(* Model of main.py: a FastAPI service that loads one CSV of retail        *)
(* transactions into the module-global DataFrame df, normalises it, and    *)
(* answers read-only aggregation requests over it.                         *)
(*                                                                         *)
(* Numbers.  A float is modelled exactly, as a rational n/d (cls "fin"),   *)
(* NaN (cls "nan") or a signed infinity (cls "inf"), so the IEEE results   *)
(* of x/0 are kept.  Sales and Profit cells hold thousandths (mills) of a  *)
(* currency unit; round(x, 2) gives hundredths, ties to even.  Binary      *)
(* representation error of floats is not modelled.                         *)
(* Strings.  A categorical value is the rank of the string in sort order   *)
(* (1, 2, ...); 0 is the empty string.                                     *)
(* Requests.  No handler writes shared state, so each one is one step;     *)
(* a run is any sequence of requests.  pandas semantics (groupby with      *)
(* sort=True and dropna=True, head with a negative count, an unstable      *)
(* sort_values, NaN-skipping mean) are modelled by what they do.           *)
(***************************************************************************)
EXTENDS Integers, Sequences, FiniteSets

VARIABLES
    pc,        \* position of the module's top-level code, then "serving"
    csv,       \* the lines of the data file (read-only input)
    df,        \* the module-global DataFrame, a sequence of rows
    request,   \* the request last served
    response   \* the value its handler returned

vars == <<pc, csv, df, request, response>>

----------------------------------------------------------------------------
(* Bounds of the model *)

MaxRows == 3        \* data lines in the file
MaxLimit == 2       \* largest limit parameter tried
MinLimit == 1       \* limits tried go down to -MinLimit

----------------------------------------------------------------------------
(* Values *)

NaN == -2           \* a missing cell (numpy NaN in an object/float column)
None == -1          \* an absent query parameter (Python None)
EmptyStr == 0       \* the string ""

NaT == [y |-> 0, m |-> 0, d |-> 0]      \* a missing timestamp

Date(y, m, d) == [y |-> y, m |-> m, d |-> d]

IsLeap(y) == (y % 4 = 0 /\ y % 100 # 0) \/ y % 400 = 0

DaysInMonth(y, m) ==
    IF m = 2 THEN (IF IsLeap(y) THEN 29 ELSE 28)
    ELSE IF m \in {4, 6, 9, 11} THEN 30 ELSE 31

ValidDate(t) == /\ t.m \in 1..12
                /\ t.d >= 1
                /\ t.d <= DaysInMonth(t.y, t.m)

(* pd.to_datetime(column, errors="coerce") on one cell: an unparseable    *)
(* cell becomes NaT.                                                       *)
to_datetime(cell) == IF ValidDate(cell) THEN cell ELSE NaT

(* Days from 1970-01-01 to a valid date (proleptic Gregorian). *)
DaysFromCivil(t) ==
    LET y   == IF t.m <= 2 THEN t.y - 1 ELSE t.y
        era == y \div 400
        yoe == y - era * 400
        mp  == (t.m + 9) % 12
        doy == ((153 * mp + 2) \div 5) + t.d - 1
        doe == yoe * 365 + (yoe \div 4) - (yoe \div 100) + doy
    IN  era * 146097 + doe - 719468

(* (ship - order).dt.days: NaN when either timestamp is NaT. *)
DeliveryDays(ship, order) ==
    IF ship = NaT \/ order = NaT THEN NaN
    ELSE DaysFromCivil(ship) - DaysFromCivil(order)

(* Series.dt.to_period("M"): the ordinal of the month since 1970-01. *)
to_period(t) == (t.y - 1970) * 12 + (t.m - 1)

PeriodYear(p) == 1970 + (p \div 12)
PeriodMonth(p) == (p % 12) + 1

(* Period.strftime("%Y-%m"), kept as the pair the text spells out. *)
strftime_Ym(p) == <<PeriodYear(p), PeriodMonth(p)>>

MonthAbbr == <<"Jan", "Feb", "Mar", "Apr", "May", "Jun",
               "Jul", "Aug", "Sep", "Oct", "Nov", "Dec">>

(* pd.to_datetime(f"2020-{m}-01").strftime("%b") *)
strftime_b(m) == MonthAbbr[to_datetime(Date(2020, m, 1)).m]

----------------------------------------------------------------------------
(* Currency text -> float (lines 53-60) *)

RECURSIVE Remove(_, _)
(* str.replace(ch, "", regex=False) *)
Remove(s, ch) ==
    IF s = <<>> THEN <<>>
    ELSE IF Head(s) = ch THEN Remove(Tail(s), ch)
         ELSE <<Head(s)>> \o Remove(Tail(s), ch)

Digits == <<"0", "1", "2", "3", "4", "5", "6", "7", "8", "9">>

IsDigit(c) == \E i \in 1..10 : Digits[i] = c

DigitVal(c) == (CHOOSE i \in 1..10 : Digits[i] = c) - 1

RECURSIVE DigitsVal(_, _)
DigitsVal(s, acc) ==
    IF s = <<>> THEN acc ELSE DigitsVal(Tail(s), 10 * acc + DigitVal(Head(s)))

AllDigits(s) == \A i \in DOMAIN s : IsDigit(s[i])

DotAt(s) == {i \in DOMAIN s : s[i] = "."}

Unsigned(s) == IF s # <<>> /\ Head(s) = "-" THEN Tail(s) ELSE s

IntPart(s) ==
    LET u == Unsigned(s)
    IN  IF DotAt(u) = {} THEN u
        ELSE SubSeq(u, 1, (CHOOSE i \in DotAt(u) : TRUE) - 1)

FracPart(s) ==
    LET u == Unsigned(s)
    IN  IF DotAt(u) = {} THEN <<>>
        ELSE SubSeq(u, (CHOOSE i \in DotAt(u) : TRUE) + 1, Len(u))

(* Whether float(text) succeeds: [-]digits[.digits] with a digit somewhere. *)
IsNumeric(s) ==
    /\ Cardinality(DotAt(Unsigned(s))) <= 1
    /\ AllDigits(IntPart(s))
    /\ AllDigits(FracPart(s))
    /\ Len(IntPart(s)) + Len(FracPart(s)) >= 1

(* float(text) in mills; the model keeps three fraction digits. *)
ParseFloat(s) ==
    LET f    == FracPart(s) \o <<"0", "0", "0">>
        mag  == 1000 * DigitsVal(IntPart(s), 0) + DigitsVal(SubSeq(f, 1, 3), 0)
    IN  IF s # <<>> /\ Head(s) = "-" THEN 0 - mag ELSE mag

(* .str.replace("$", "").str.replace(",", "") *)
CleanText(s) == Remove(Remove(s, "$"), ",")

----------------------------------------------------------------------------
(* Floats *)

Fin(n, d) == [cls |-> "fin", n |-> n, d |-> d]      \* n/d, d > 0
NaNF == [cls |-> "nan", n |-> 0, d |-> 1]
Inf(sign) == [cls |-> "inf", n |-> sign, d |-> 1]

Sign(a) == IF a > 0 THEN 1 ELSE IF a < 0 THEN 0 - 1 ELSE 0

Abs(a) == IF a < 0 THEN 0 - a ELSE a

RECURSIVE GCD(_, _)
GCD(a, b) == IF b = 0 THEN a ELSE GCD(b, a % b)

(* The float quotient a/b of two numbers given over a common denominator, *)
(* in lowest terms.                                                        *)
Quot(a, b) ==
    IF b = 0 THEN (IF a = 0 THEN NaNF ELSE Inf(Sign(a)))
    ELSE LET g == GCD(Abs(a), Abs(b))
         IN  Fin(Sign(b) * (a \div g), Abs(b) \div g)

(* f * k for an integer k > 0. *)
Times(f, k) == IF f.cls = "fin" THEN Quot(f.n * k, f.d) ELSE f

(* A Sales/Profit sum, held in mills, as a float. *)
Amount(mills) == Quot(mills, 1000)

(* f < k for an integer k; every comparison with NaN is false. *)
Less(f, k) ==
    CASE f.cls = "fin" -> f.n < k * f.d
      [] f.cls = "inf" -> f.n < 0
      [] OTHER         -> FALSE

(* k < f for an integer k. *)
Greater(f, k) ==
    CASE f.cls = "fin" -> f.n > k * f.d
      [] f.cls = "inf" -> f.n > 0
      [] OTHER         -> FALSE

(* Python min(f, k) with the clamp forgotten. *)
MinUnclamped(f, k) == f

(* Python min(f, k): k when k < f, otherwise f. *)
Min(f, k) == IF Greater(f, k) THEN Fin(k, 1) ELSE f

(* The integer nearest n/d (d > 0), ties to the even one. *)
RoundHalfEven(n, d) ==
    LET q == n \div d
        r == n - q * d
    IN  IF 2 * r < d THEN q
        ELSE IF 2 * r > d THEN q + 1
        ELSE IF q % 2 = 0 THEN q ELSE q + 1

(* round(f, 2): a finite float becomes a count of hundredths; NaN and the  *)
(* infinities stay what they are.  The whole part is rounded apart from    *)
(* the fraction, which keeps the products small.                           *)
Round2(f) ==
    IF f.cls = "fin"
    THEN LET q == f.n \div f.d
             r == f.n - q * f.d
         IN  [cls |-> "fin", v |-> 100 * q + RoundHalfEven(100 * r, f.d)]
    ELSE [cls |-> f.cls, v |-> f.n]

----------------------------------------------------------------------------
(* Sequences *)

RECURSIVE Sum(_)
(* The sum of a sequence of integers. *)
Sum(s) == IF s = <<>> THEN 0 ELSE Head(s) + Sum(Tail(s))

RECURSIVE Ascending(_)
(* The members of a finite set of integers, in ascending order. *)
Ascending(S) ==
    IF S = {} THEN <<>>
    ELSE LET lo == CHOOSE x \in S : \A y \in S : x <= y
         IN  <<lo>> \o Ascending(S \ {lo})

(* df[col]: a column, as the sequence of its cells. *)
Column(d, col) == [i \in DOMAIN d |-> d[i][col]]

(* df[mask]: the rows at the positions in the set keep, in table order. *)
Take(d, keep) ==
    LET at == Ascending(keep) IN [j \in DOMAIN at |-> d[at[j]]]

(* DataFrame.head(n): the first n rows; all but the last -n when n < 0. *)
head(s, n) ==
    IF n >= 0 THEN SubSeq(s, 1, IF n < Len(s) THEN n ELSE Len(s))
    ELSE SubSeq(s, 1, Len(s) + n)

Perms(n) == {p \in [1..n -> 1..n] : \A i, j \in 1..n : i # j => p[i] # p[j]}

(* DataFrame.sort_values(by, ascending=...): the orders the default        *)
(* (unstable) sort may leave the rows in, that is every arrangement in     *)
(* which the column by never decreases (ascending) or never increases.     *)
sort_values(s, by, ascending) ==
    {[i \in DOMAIN s |-> s[p[i]]] : p \in
        {q \in Perms(Len(s)) :
            \A i, j \in DOMAIN s :
                i < j => IF ascending THEN s[q[i]][by] <= s[q[j]][by]
                         ELSE s[q[i]][by] >= s[q[j]][by]}}

----------------------------------------------------------------------------
(* The data file *)

(* One line of the file.  extra: the line has more fields than the header  *)
(* (a bad line); Sales and Profit are text; the dates are what their text  *)
(* spells, possibly no date of the calendar.                               *)
Line(extra, od, sd, sales, profit, cat, sub, reg, st, seg, mode, prod, cust) ==
    [extra |-> extra, OrderDate |-> od, ShipDate |-> sd,
     Sales |-> sales, Profit |-> profit,
     Category |-> cat, SubCategory |-> sub, Region |-> reg, State |-> st,
     Segment |-> seg, ShipMode |-> mode, ProductName |-> prod,
     CustomerName |-> cust]

(* The lines a file is drawn from: two values of every categorical column  *)
(* (three products and customers), three months over two years, a zero sale, a loss, a profit above the    *)
(* sale, equal sales for different customers and products, missing         *)
(* categorical cells, an unparseable order date (on a line whose Sales has *)
(* a thousands separator), an unparseable ship date, a line with surplus   *)
(* fields and a Sales cell that is no number.  No Sales or Profit cell is   *)
(* empty.                                                                  *)
LinePool ==
    { Line(FALSE, Date(2020, 1, 15), Date(2020, 1, 18),
           <<"$", "1", ".", "0", "0", "5">>, <<"0", ".", "1">>,
           1, 1, 1, 1, 1, 1, 1, 1),
      Line(FALSE, Date(2020, 2, 10), Date(2020, 3, 1),
           <<"2", ".", "5">>, <<"-", "$", "0", ".", "7", "5">>,
           2, 2, 2, 2, 2, 2, 2, 2),
      Line(FALSE, Date(2021, 1, 5), Date(2021, 2, 30),
           <<"1", ".", "0", "0", "5">>, <<"3">>,
           1, 2, 2, 1, 1, 1, 1, 2),
      Line(FALSE, Date(2020, 2, 10), Date(2020, 2, 12),
           <<"0">>, <<"0">>,
           2, 2, 1, 2, 2, 2, 3, 3),
      Line(FALSE, Date(2021, 1, 5), Date(2021, 1, 6),
           <<"$", "0", ".", "0", "0">>, <<"-", "$", "0", ".", "5", "0">>,
           1, 1, 1, 1, 1, 1, 1, 1),
      Line(FALSE, Date(2020, 1, 15), Date(2020, 1, 16),
           <<"4">>, <<"1">>,
           NaN, NaN, NaN, NaN, NaN, NaN, NaN, NaN),
      Line(FALSE, Date(2020, 13, 1), Date(2020, 1, 2),
           <<"$", "1", ",", "0", "0", "0", ".", "0", "0">>, <<"1">>,
           1, 1, 1, 1, 1, 1, 1, 1),
      Line(TRUE, Date(2020, 1, 15), Date(2020, 1, 18),
           <<"9">>, <<"1">>,
           2, 2, 2, 2, 2, 2, 2, 2),
      Line(FALSE, Date(2021, 1, 5), Date(2021, 1, 6),
           <<"N", "/", "A">>, <<"1">>,
           1, 1, 1, 1, 1, 1, 1, 1) }

Files == UNION {[1..n -> LinePool] : n \in 0..MaxRows}

----------------------------------------------------------------------------
(* Module-level code: load and normalise *)

NoRequest == [op |-> "none"]
NoResponse == [kind |-> "none"]

Init ==
    /\ pc = "read_csv"
    /\ csv \in Files
    /\ df = <<>>
    /\ request = NoRequest
    /\ response = NoResponse

(* pd.read_csv(..., on_bad_lines="skip"): lines with surplus fields are    *)
(* left out.                                                               *)
ReadCsv(lines) == Take(lines, {i \in DOMAIN lines : ~lines[i].extra})

(* Lines 53-60 on one row: Sales and Profit from text to float. *)
CleanRow(r) ==
    [r EXCEPT !.Sales = ParseFloat(CleanText(r.Sales)),
              !.Profit = ParseFloat(CleanText(r.Profit))]

(* Whether .astype(float) succeeds on both columns. *)
Numeric(d) ==
    \A i \in DOMAIN d : /\ IsNumeric(CleanText(d[i].Sales))
                        /\ IsNumeric(CleanText(d[i].Profit))

(* Lines 62-63: parse Order Date, drop the rows where it is NaT. *)
DropNaOrderDate(d) ==
    LET parsed == [i \in DOMAIN d |->
                      [d[i] EXCEPT !.OrderDate = to_datetime(d[i].OrderDate)]]
    IN  Take(parsed, {i \in DOMAIN parsed : parsed[i].OrderDate # NaT})

(* Lines 310-311 on one row: parse Ship Date, derive delivery_days. *)
ShipRow(r) ==
    [extra |-> r.extra, OrderDate |-> r.OrderDate,
     ShipDate |-> to_datetime(r.ShipDate),
     Sales |-> r.Sales, Profit |-> r.Profit,
     Category |-> r.Category, SubCategory |-> r.SubCategory,
     Region |-> r.Region, State |-> r.State, Segment |-> r.Segment,
     ShipMode |-> r.ShipMode, ProductName |-> r.ProductName,
     CustomerName |-> r.CustomerName,
     delivery_days |-> DeliveryDays(to_datetime(r.ShipDate), r.OrderDate)]

(* The table serving starts with, for a file whose numbers parse. *)
Loaded(lines) ==
    LET read == ReadCsv(lines)
        clean == DropNaOrderDate([i \in DOMAIN read |-> CleanRow(read[i])])
    IN  [i \in DOMAIN clean |-> ShipRow(clean[i])]

read_csv ==
    /\ pc = "read_csv"
    /\ df' = ReadCsv(csv)
    /\ pc' = "clean"
    /\ UNCHANGED <<csv, request, response>>

(* Lines 53-63.  A cell that is no number raises ValueError and the import *)
(* of the module, hence the process, ends.                                 *)
clean_data ==
    /\ pc = "clean"
    /\ IF Numeric(df)
       THEN /\ df' = DropNaOrderDate([i \in DOMAIN df |-> CleanRow(df[i])])
            /\ pc' = "ship"
       ELSE /\ df' = df
            /\ pc' = "failed"
    /\ UNCHANGED <<csv, request, response>>

(* Lines 310-311; the routes are registered, the server starts. *)
delivery_days ==
    /\ pc = "ship"
    /\ df' = [i \in DOMAIN df |-> ShipRow(df[i])]
    /\ pc' = "serving"
    /\ UNCHANGED <<csv, request, response>>

----------------------------------------------------------------------------
(* Group-by and aggregation *)

SalesSum(rows) == Sum(Column(rows, "Sales"))
ProfitSum(rows) == Sum(Column(rows, "Profit"))

(* df.groupby(keys), keys a column or a series derived from one: one group *)
(* per observed key in ascending key order (sort=True); rows whose key is  *)
(* missing are in no group (dropna=True).                                  *)
groupby(d, keys) ==
    LET ks == Ascending({keys[i] : i \in DOMAIN d} \ {NaN})
    IN  [j \in DOMAIN ks |->
            [key |-> ks[j],
             rows |-> Take(d, {i \in DOMAIN d : keys[i] = ks[j]})]]

(* .agg(sales=("Sales","sum"), profit=("Profit","sum"),                    *)
(*      orders=("Sales","count")).reset_index()                            *)
agg(groups) ==
    [j \in DOMAIN groups |->
        [key |-> groups[j].key, sales |-> SalesSum(groups[j].rows),
         profit |-> ProfitSum(groups[j].rows), orders |-> Len(groups[j].rows)]]

(* (profit / sales) * 100 *)
Margin(profit, sales) == Times(Quot(profit, sales), 100)

(* Series.dt.month, .dt.year, .dt.to_period("M") of Order Date *)
OrderMonth(d) == [i \in DOMAIN d |-> d[i].OrderDate.m]
OrderYear(d) == [i \in DOMAIN d |-> d[i].OrderDate.y]
OrderPeriod(d) == [i \in DOMAIN d |-> to_period(d[i].OrderDate)]

(* The sort by sales made ascending. *)
SalesAscending == TRUE

(* sort_values("sales", ascending=False) *)
SalesDescending == FALSE

----------------------------------------------------------------------------
(* Handlers: the value each returns for the table d *)

root == [message |-> "running"]

get_kpis(d) ==
    LET total_sales == SalesSum(d)
        total_profit == ProfitSum(d)
        orders == Len(d)
        margin == IF total_sales > 0 THEN Margin(total_profit, total_sales)
                  ELSE Fin(0, 1)
        average_ticket == IF orders > 0 THEN Quot(total_sales, 1000 * orders)
                          ELSE Fin(0, 1)
    IN  [totalSales |-> Round2(Amount(total_sales)),
         totalProfit |-> Round2(Amount(total_profit)),
         orders |-> orders,
         margin |-> Round2(Min(margin, 100)),
         averageTicket |-> Round2(average_ticket)]

(* sort_values("Order Date") finds the distinct keys already ascending. *)
sales_by_month(d) ==
    LET result == agg(groupby(d, OrderMonth(d)))
    IN  [i \in DOMAIN result |->
            [month |-> strftime_b(result[i].key),
             sales |-> Round2(Amount(result[i].sales))]]

sales_by_year(d) ==
    LET result == agg(groupby(d, OrderYear(d)))
    IN  [i \in DOMAIN result |->
            [year |-> result[i].key,
             sales |-> Round2(Amount(result[i].sales)),
             profit |-> Round2(Amount(result[i].profit))]]

sales_by_category(d) ==
    LET result == agg(groupby(d, Column(d, "Category")))
    IN  [i \in DOMAIN result |->
            [Category |-> result[i].key,
             sales |-> Round2(Amount(result[i].sales)),
             profit |-> Round2(Amount(result[i].profit))]]

kpis_by_category(d) ==
    LET result == agg(groupby(d, Column(d, "Category")))
    IN  [i \in DOMAIN result |->
            [Category |-> result[i].key,
             sales |-> Round2(Amount(result[i].sales)),
             profit |-> Round2(Amount(result[i].profit)),
             orders |-> result[i].orders,
             margin |-> Round2(Margin(result[i].profit, result[i].sales))]]

sales_by_region(d) ==
    LET result == agg(groupby(d, Column(d, "Region")))
    IN  [i \in DOMAIN result |->
            [Region |-> result[i].key,
             sales |-> Round2(Amount(result[i].sales)),
             profit |-> Round2(Amount(result[i].profit))]]

(* The possible results: rows of equal sales may come in either order. *)
sales_by_state(d) ==
    {[i \in DOMAIN sorted |->
        [State |-> sorted[i].key,
         sales |-> Round2(Amount(sorted[i].sales))]] :
        sorted \in sort_values(agg(groupby(d, Column(d, "State"))),
                               "sales", SalesDescending)}

top_products(d, limit) ==
    {LET shown == head(sorted, limit)
     IN  [i \in DOMAIN shown |->
            [ProductName |-> shown[i].key,
             sales |-> Round2(Amount(shown[i].sales)),
             profit |-> Round2(Amount(shown[i].profit))]] :
        sorted \in sort_values(agg(groupby(d, Column(d, "ProductName"))),
                               "sales", SalesDescending)}

(* The growth column zero-filled instead of the rows dropped. *)
fillna_growth(rows) ==
    [i \in DOMAIN rows |->
        IF rows[i].growth_pct.cls = "nan"
        THEN [rows[i] EXCEPT !.growth_pct = Fin(0, 1)] ELSE rows[i]]

(* result.dropna(subset=["growth_pct"]) *)
dropna_growth(rows) ==
    Take(rows, {i \in DOMAIN rows : rows[i].growth_pct.cls # "nan"})

sales_growth(d) ==
    LET result == agg(groupby(d, OrderPeriod(d)))
        growth_pct(i) ==
            IF i = 1 THEN NaNF      \* shift(1) leaves no previous value
            ELSE Margin(result[i].sales - result[i - 1].sales,
                        result[i - 1].sales)
        kept == dropna_growth([i \in DOMAIN result |->
                              [key |-> result[i].key, sales |-> result[i].sales,
                               growth_pct |-> growth_pct(i)]])
    IN  [i \in DOMAIN kept |->
            [month |-> strftime_Ym(kept[i].key),
             sales |-> Round2(Amount(kept[i].sales)),
             growth_pct |-> Round2(kept[i].growth_pct)]]

sales_by_segment(d) ==
    LET result == agg(groupby(d, Column(d, "Segment")))
    IN  [i \in DOMAIN result |->
            [Segment |-> result[i].key,
             sales |-> Round2(Amount(result[i].sales)),
             profit |-> Round2(Amount(result[i].profit)),
             orders |-> result[i].orders]]

sales_by_subcategory(d) ==
    LET result == agg(groupby(d, Column(d, "SubCategory")))
    IN  [i \in DOMAIN result |->
            [SubCategory |-> result[i].key,
             sales |-> Round2(Amount(result[i].sales)),
             profit |-> Round2(Amount(result[i].profit)),
             margin |-> Round2(Margin(result[i].profit, result[i].sales))]]

(* The query written as profit <= 0. *)
LosingOrEven(g) == g.profit <= 0

(* .query("profit < 0") *)
Losing(g) == g.profit < 0

loss_making_products(d, limit) ==
    {LET shown == head(sorted, limit)
     IN  [i \in DOMAIN shown |->
            [ProductName |-> shown[i].key,
             sales |-> Round2(Amount(shown[i].sales)),
             profit |-> Round2(Amount(shown[i].profit))]] :
        sorted \in sort_values(
            SelectSeq(agg(groupby(d, Column(d, "ProductName"))), Losing),
            "profit", TRUE)}

top_customers(d, limit) ==
    {LET shown == head(sorted, limit)
     IN  [i \in DOMAIN shown |->
            [CustomerName |-> shown[i].key,
             sales |-> Round2(Amount(shown[i].sales)),
             orders |-> shown[i].orders]] :
        sorted \in sort_values(agg(groupby(d, Column(d, "CustomerName"))),
                               "sales", SalesDescending)}

customer_pareto(d) ==
    {LET total_sales == Sum(Column(sorted, "sales"))
         cumsum(i) == Sum(Column(SubSeq(sorted, 1, i), "sales"))
     IN  [i \in DOMAIN sorted |->
            [CustomerName |-> sorted[i].key,
             sales |-> Round2(Amount(sorted[i].sales)),
             cum_pct |-> Round2(Margin(cumsum(i), total_sales))]] :
        sorted \in sort_values(agg(groupby(d, Column(d, "CustomerName"))),
                               "sales", SalesDescending)}

(* Series.mean() of delivery_days: missing values are skipped; NaN when    *)
(* none is left.                                                           *)
MeanDeliveryDays(rows) ==
    LET have == Take(rows, {i \in DOMAIN rows : rows[i].delivery_days # NaN})
    IN  Quot(Sum(Column(have, "delivery_days")), Len(have))

shipping_analysis(d) ==
    LET groups == groupby(d, Column(d, "ShipMode"))
    IN  [i \in DOMAIN groups |->
            [ShipMode |-> groups[i].key,
             avg_delivery_days |-> Round2(MeanDeliveryDays(groups[i].rows)),
             sales |-> Round2(Amount(SalesSum(groups[i].rows))),
             profit |-> Round2(Amount(ProfitSum(groups[i].rows)))]]

LowMarginShown == 3     \* .head(3)
LowMarginBelow == 5     \* .query("margin < 5")

alerts(d) ==
    LET by_category == agg(groupby(d, Column(d, "Category")))
        negative_categories ==
            Take(by_category,
                 {i \in DOMAIN by_category : by_category[i].profit < 0})
        by_product == agg(groupby(d, Column(d, "ProductName")))
        low_margin_products ==
            head(Take(by_product,
                      {i \in DOMAIN by_product :
                          Less(Margin(by_product[i].profit, by_product[i].sales),
                               LowMarginBelow)}),
                 LowMarginShown)
    IN  [i \in DOMAIN negative_categories |->
            [alert |-> "category_loss", name |-> negative_categories[i].key]]
        \o [i \in DOMAIN low_margin_products |->
               [alert |-> "low_margin", name |-> low_margin_products[i].key]]

(* Python truthiness of a query parameter: None, 0 and "" are false. *)
Truthy(x) == x # None /\ x # 0 /\ x # EmptyStr

(* The rows filtered_sales keeps: data after the three conditional         *)
(* selections, starting from df.copy().                                    *)
Selected(d, year, region, category) ==
    LET copy == d
        data1 == IF Truthy(year)
                 THEN Take(copy, {i \in DOMAIN copy :
                                     copy[i].OrderDate.y = year})
                 ELSE copy
        data2 == IF Truthy(region)
                 THEN Take(data1, {i \in DOMAIN data1 :
                                      data1[i].Region = region})
                 ELSE data1
    IN  IF Truthy(category)
        THEN Take(data2, {i \in DOMAIN data2 : data2[i].Category = category})
        ELSE data2

(* filtered_sales rebinding the global df instead of a local. *)
filtered_sales_global(d, year, region, category) ==
    LET data == Selected(d, year, region, category)
    IN  [df |-> data,
         out |-> [sales |-> Round2(Amount(SalesSum(data))),
                  profit |-> Round2(Amount(ProfitSum(data))),
                  orders |-> Len(data)]]

(* filtered_sales: the global df when the handler returns (it binds only   *)
(* its local data) and the value returned.                                 *)
filtered_sales(d, year, region, category) ==
    LET data == Selected(d, year, region, category)
    IN  [df |-> d,
         out |-> [sales |-> Round2(Amount(SalesSum(data))),
                  profit |-> Round2(Amount(ProfitSum(data))),
                  orders |-> Len(data)]]

----------------------------------------------------------------------------
(* Requests *)

DefaultLimit == 10      \* limit: int = 10

Limits == ((0 - MinLimit)..MaxLimit) \cup {DefaultLimit}
Years == {None, 0, 2020}
Regions == {None, EmptyStr, 1}
Categories == {None, EmptyStr, 2}

Req(o) == [op |-> o, year |-> None, limit |-> None, region |-> None,
          category |-> None]
ReqLimit(o, n) == [op |-> o, year |-> None, limit |-> n, region |-> None,
                   category |-> None]

(* A handler that reads df runs for a request and returns out. *)
Serve(req, out) ==
    /\ pc = "serving"
    /\ request' = req
    /\ response' = out
    /\ pc' = "responding"
    /\ UNCHANGED <<csv, df>>

(* The framework sends the returned value; the server waits again. *)
Reply ==
    /\ pc = "responding"
    /\ pc' = "serving"
    /\ request' = NoRequest
    /\ response' = NoResponse
    /\ UNCHANGED <<csv, df>>

Root == Serve(Req("root"), root)
Kpis == Serve(Req("kpis"), get_kpis(df))
SalesByMonth == Serve(Req("sales-by-month"), sales_by_month(df))
SalesByYear == Serve(Req("sales-by-year"), sales_by_year(df))
SalesByCategory == Serve(Req("sales-by-category"), sales_by_category(df))
KpisByCategory == Serve(Req("kpis-by-category"), kpis_by_category(df))
SalesByRegion == Serve(Req("sales-by-region"), sales_by_region(df))
SalesByState ==
    /\ pc = "serving"
    /\ \E out \in sales_by_state(df) : Serve(Req("sales-by-state"), out)
TopProducts ==
    /\ pc = "serving"
    /\ \E n \in Limits : \E out \in top_products(df, n) :
          Serve(ReqLimit("top-products", n), out)
SalesGrowth == Serve(Req("sales-growth"), sales_growth(df))
SalesBySegment == Serve(Req("sales-by-segment"), sales_by_segment(df))
SalesBySubcategory ==
    Serve(Req("sales-by-subcategory"), sales_by_subcategory(df))
LossMakingProducts ==
    /\ pc = "serving"
    /\ \E n \in Limits : \E out \in loss_making_products(df, n) :
          Serve(ReqLimit("loss-making-products", n), out)
TopCustomers ==
    /\ pc = "serving"
    /\ \E n \in Limits : \E out \in top_customers(df, n) :
          Serve(ReqLimit("top-customers", n), out)
CustomerPareto ==
    /\ pc = "serving"
    /\ \E out \in customer_pareto(df) : Serve(Req("customer-pareto"), out)
ShippingAnalysis == Serve(Req("shipping-analysis"), shipping_analysis(df))
Alerts == Serve(Req("alerts"), alerts(df))

FilteredSales ==
    \E y \in Years, r \in Regions, c \in Categories :
        LET ret == filtered_sales(df, y, r, c)
        IN  /\ pc = "serving"
            /\ request' = [op |-> "filtered-sales", year |-> y,
                           limit |-> None, region |-> r, category |-> c]
            /\ response' = ret.out
            /\ df' = ret.df
            /\ pc' = "responding"
            /\ UNCHANGED csv

Next ==
    \/ read_csv
    \/ clean_data
    \/ delivery_days
    \/ Root
    \/ Kpis
    \/ SalesByMonth
    \/ SalesByYear
    \/ SalesByCategory
    \/ KpisByCategory
    \/ SalesByRegion
    \/ SalesByState
    \/ TopProducts
    \/ SalesGrowth
    \/ SalesBySegment
    \/ SalesBySubcategory
    \/ LossMakingProducts
    \/ TopCustomers
    \/ CustomerPareto
    \/ ShippingAnalysis
    \/ Alerts
    \/ FilteredSales
    \/ Reply

Spec == Init /\ [][Next]_vars

----------------------------------------------------------------------------
(* Properties *)

RECURSIVE SumF(_, _)
(* The sum of f[x] over the x in the finite set S. *)
SumF(f, S) ==
    IF S = {} THEN 0
    ELSE LET x == CHOOSE y \in S : TRUE IN f[x] + SumF(f, S \ {x})

Sales == [i \in DOMAIN df |-> df[i].Sales]
Profit == [i \in DOMAIN df |-> df[i].Profit]

Responding(o) == pc = "responding" /\ request.op = o

(* hundredths v is a nearest hundredth to the amount of m mills *)
NearestCents(v, m) == Abs(m - 10 * v) <= 5

(* hundredths v is a nearest hundredth to 100 * n / d, d > 0 *)
NearestPct(v, n, d) == 2 * Abs(10000 * n - v * d) <= d

(* C1 as claimed: the margin returned by kpis lies in [0, 100] for every   *)
(* table.                                                                  *)
C1_MarginWithin0And100 ==
    Responding("kpis") =>
        /\ response.margin.cls = "fin"
        /\ response.margin.v >= 0
        /\ response.margin.v <= 10000

(* C1 amended: the margin returned by kpis is a finite number, at most 100 *)
(* for every table, 0 when total sales are not positive, and at least 0    *)
(* whenever total profit is not negative; with positive sales it is        *)
(* 100 * profit / sales rounded, unless that exceeds 100.                  *)
C1_MarginAtMost100 ==
    Responding("kpis") =>
        LET s == SumF(Sales, DOMAIN df)
            p == SumF(Profit, DOMAIN df)
            m == response.margin
        IN  /\ m.cls = "fin"
            /\ m.v <= 10000
            /\ s <= 0 => m.v = 0
            /\ p >= 0 => m.v >= 0
            /\ (s > 0 /\ p <= s) => NearestPct(m.v, p, s)
            /\ (s > 0 /\ p > s) => m.v = 10000

(* kpis answered for a table whose raw profit/sales ratio exceeds 100%. *)
C1_Witness ==
    /\ Responding("kpis")
    /\ SumF(Sales, DOMAIN df) > 0
    /\ SumF(Profit, DOMAIN df) > SumF(Sales, DOMAIN df)
    /\ response.margin.v = 10000

(* The operations that group the whole table, unfiltered and untruncated. *)
PartitionOps ==
    {"sales-by-month", "sales-by-year", "sales-by-category",
     "sales-by-region", "sales-by-state", "sales-by-segment",
     "sales-by-subcategory", "customer-pareto", "shipping-analysis"}

(* C2 as claimed: the sales of the records a partitioning group-by returns *)
(* sum to the total sales of the table, up to the rounding of each record  *)
(* (half a hundredth each): every row is in exactly one group.             *)
C2_GroupSalesSumToTotal ==
    (pc = "responding" /\ request.op \in PartitionOps) =>
        LET cents == SumF([i \in DOMAIN response |-> response[i].sales.v],
                          DOMAIN response)
        IN  Abs(SumF(Sales, DOMAIN df) - 10 * cents) <= 5 * Len(response)

(* Rows of the table, by order-date month. *)
Periods == {to_period(df[i].OrderDate) : i \in DOMAIN df}
PeriodSales(p) ==
    SumF(Sales, {i \in DOMAIN df : to_period(df[i].OrderDate) = p})
PeriodOf(month) == (month[1] - 1970) * 12 + (month[2] - 1)
PrevPeriod(p) ==
    CHOOSE q \in Periods : q < p /\ \A o \in Periods : o < p => o <= q

(* C3: sales-growth returns records in chronological order, none for the   *)
(* earliest period, at most N-1 for N periods; each record is for a period *)
(* of the table, carries its rounded sales, and its growth_pct is          *)
(* 100 * (sales - prevSales) / prevSales rounded, prevSales being the      *)
(* sales of the period observed just before (an infinity, the float        *)
(* quotient, when prevSales is 0).                                         *)
C3_SalesGrowth ==
    Responding("sales-growth") =>
        /\ Len(response) <= (IF Periods = {} THEN 0 ELSE Cardinality(Periods) - 1)
        /\ \A i, j \in DOMAIN response :
              i < j => PeriodOf(response[i].month) < PeriodOf(response[j].month)
        /\ \A i \in DOMAIN response :
              LET p == PeriodOf(response[i].month)
                  g == response[i].growth_pct
              IN  /\ p \in Periods
                  /\ \E q \in Periods : q < p
                  /\ NearestCents(response[i].sales.v, PeriodSales(p))
                  /\ LET prev == PeriodSales(PrevPeriod(p))
                     IN  IF prev # 0
                         THEN /\ g.cls = "fin"
                              /\ NearestPct(g.v, PeriodSales(p) - prev, prev)
                         ELSE /\ g.cls = "inf"
                              /\ g.v = Sign(PeriodSales(p))

(* sales-growth answered for three periods with a fall and a rise. *)
C3_Witness ==
    /\ Responding("sales-growth")
    /\ Cardinality(Periods) = 3
    /\ Len(response) = 2
    /\ response[1].growth_pct.cls = "fin"
    /\ response[1].growth_pct.v > 0
    /\ response[2].growth_pct.cls = "fin"
    /\ response[2].growth_pct.v < 0

Customers == {df[i].CustomerName : i \in DOMAIN df} \ {NaN}
CustomerSales(c) == SumF(Sales, {i \in DOMAIN df : df[i].CustomerName = c})

(* C4 as claimed: for a non-empty table customer-pareto returns one record *)
(* per customer in descending order of summed sales, with cum_pct          *)
(* non-decreasing and the last cum_pct equal to 100.                       *)
C4_ParetoReaches100 ==
    (Responding("customer-pareto") /\ Len(df) > 0) =>
        /\ Len(response) = Cardinality(Customers)
        /\ {response[i].CustomerName : i \in DOMAIN response} = Customers
        /\ \A i, j \in DOMAIN response :
              i < j => /\ CustomerSales(response[i].CustomerName)
                            >= CustomerSales(response[j].CustomerName)
                       /\ response[i].cum_pct.cls = "fin"
                       /\ response[j].cum_pct.cls = "fin"
                       /\ response[i].cum_pct.v <= response[j].cum_pct.v
        /\ Len(response) > 0 =>
              /\ response[Len(response)].cum_pct.cls = "fin"
              /\ response[Len(response)].cum_pct.v = 10000

Products == {df[i].ProductName : i \in DOMAIN df} \ {NaN}
ProductSales(q) == SumF(Sales, {i \in DOMAIN df : df[i].ProductName = q})
ProductProfit(q) == SumF(Profit, {i \in DOMAIN df : df[i].ProductName = q})

(* C5: for a positive limit top-products returns min(limit, number of      *)
(* products) records, one per distinct product name with its sales summed  *)
(* and rounded, in descending order of sales, and no product left out has  *)
(* greater sales than one returned.                                        *)
C5_TopProducts ==
    (Responding("top-products") /\ request.limit >= 1) =>
        LET shown == {response[i].ProductName : i \in DOMAIN response}
        IN  /\ Len(response) <= request.limit
            /\ Len(response) = (IF Cardinality(Products) < request.limit
                                THEN Cardinality(Products) ELSE request.limit)
            /\ shown \subseteq Products
            /\ Cardinality(shown) = Len(response)
            /\ \A i \in DOMAIN response :
                  /\ NearestCents(response[i].sales.v,
                                  ProductSales(response[i].ProductName))
                  /\ NearestCents(response[i].profit.v,
                                  ProductProfit(response[i].ProductName))
            /\ \A i, j \in DOMAIN response :
                  i < j => /\ ProductSales(response[i].ProductName)
                                >= ProductSales(response[j].ProductName)
                           /\ response[i].sales.v >= response[j].sales.v
            /\ \A q \in Products \ shown : \A r \in shown :
                  ProductSales(q) <= ProductSales(r)

(* top-products cut a table of three products to the two that sell most. *)
C5_Witness ==
    /\ Responding("top-products")
    /\ request.limit = 2
    /\ Cardinality(Products) = 3
    /\ Len(response) = 2
    /\ \E q \in Products :
          /\ \A i \in DOMAIN response : response[i].ProductName # q
          /\ ProductSales(q) < ProductSales(response[2].ProductName)

(* C6: for every limit, every record loss-making-products returns is for a *)
(* product whose summed profit is below 0, carries that profit rounded,    *)
(* and the records are in ascending order of profit.                       *)
C6_LossMakingProducts ==
    Responding("loss-making-products") =>
        /\ \A i \in DOMAIN response :
              /\ response[i].ProductName \in Products
              /\ ProductProfit(response[i].ProductName) < 0
              /\ NearestCents(response[i].profit.v,
                              ProductProfit(response[i].ProductName))
        /\ \A i, j \in DOMAIN response :
              i < j => /\ ProductProfit(response[i].ProductName)
                            <= ProductProfit(response[j].ProductName)
                       /\ response[i].profit.v <= response[j].profit.v

(* loss-making-products returned a product while leaving out one that has  *)
(* a loss on some row but no loss in total.                                *)
C6_Witness ==
    /\ Responding("loss-making-products")
    /\ Len(response) = 1
    /\ \E q \in Products :
          /\ \E i \in DOMAIN df : df[i].ProductName = q /\ df[i].Profit < 0
          /\ ProductProfit(q) >= 0
          /\ \A i \in DOMAIN response : response[i].ProductName # q

(* The rows that satisfy every filter supplied (a parameter is supplied    *)
(* unless it is None).                                                     *)
Matching ==
    {i \in DOMAIN df :
        /\ request.year # None => df[i].OrderDate.y = request.year
        /\ request.region # None => df[i].Region = request.region
        /\ request.category # None => df[i].Category = request.category}

(* C7 as claimed: filtered-sales returns the sums and the count over       *)
(* exactly the rows that satisfy every supplied filter, whatever the       *)
(* values supplied, year 0 and the empty string included.                  *)
C7_FilteredSalesOverMatching ==
    Responding("filtered-sales") =>
        /\ response.orders = Cardinality(Matching)
        /\ NearestCents(response.sales.v, SumF(Sales, Matching))
        /\ NearestCents(response.profit.v, SumF(Profit, Matching))

LimitOps == {"top-products", "top-customers", "loss-making-products"}

(* C8 as claimed: with a limit of zero or below, a limited operation       *)
(* returns the empty list (no handler of the module returns or raises a    *)
(* validation error), never a non-empty list.                              *)
C8_NonPositiveLimitGivesNothing ==
    (pc = "responding" /\ request.op \in LimitOps /\ request.limit <= 0) =>
        response = <<>>

(* C9 as claimed: no ratio field of a response is NaN or an infinity:      *)
(* margin in kpis, kpis-by-category and sales-by-subcategory, growth_pct   *)
(* in sales-growth, cum_pct in customer-pareto.                            *)
C9_RatiosAreFinite ==
    /\ Responding("kpis") => response.margin.cls = "fin"
    /\ (pc = "responding"
            /\ request.op \in {"kpis-by-category", "sales-by-subcategory"}) =>
          \A i \in DOMAIN response : response[i].margin.cls = "fin"
    /\ Responding("sales-growth") =>
          \A i \in DOMAIN response : response[i].growth_pct.cls = "fin"
    /\ Responding("customer-pareto") =>
          \A i \in DOMAIN response : response[i].cum_pct.cls = "fin"

====
